---------------------------- MODULE Spec2Model ----------------------------
(***************************************************************************)
(* Model of src/index.js: the process-wide configuration (exports.config)  *)
(* and the image pipeline (exports.handler), a bluebird promise chain.     *)
(*                                                                         *)
(* Text is a sequence of symbols.  The separator "/" and the dot "." are   *)
(* always symbols of their own; a name without separator may be written    *)
(* as one symbol ("photo.jpg"), so that splitting, joining and taking the  *)
(* base name act on the text exactly as the path module does.              *)
(***************************************************************************)
EXTENDS Naturals, Sequences, FiniteSets

(* ------------------------------ bounds -------------------------------- *)

\* number of handler invocations made on the module (they may overlap)
MaxInv == 2
\* number of config calls made on the module (they may overlap)
MaxCfg == 2

Inv == 1..MaxInv
Cfg == 1..MaxCfg

(* --------------------------- JavaScript values ------------------------ *)

Str(s)   == [t |-> "string", v |-> s]
Num(s)   == [t |-> "number", v |-> s]
Arr(s)   == [t |-> "array",  v |-> s]
JsNull   == [t |-> "null",   v |-> <<>>]

Last(s)  == s[Len(s)]
Front(s) == SubSeq(s, 1, Len(s) - 1)

(* ------------------------------ path ---------------------------------- *)

\* In the recursive definitions below a recursive call is written
\*   CHOOSE r \in {F(x) : x \in {e}} : TRUE
\* which is F(e) with e evaluated once, before the call.

\* the positions of the separators of a text
Slashes(s) == {k \in 1..Len(s) : s[k] = "/"}

\* text.split('/'): the texts between the separators
Split(s) ==
  [n \in 1..(Cardinality(Slashes(s)) + 1) |->
     LET before(k) == Cardinality({q \in Slashes(s) : q < k})
         from == IF n = 1 THEN 1
                 ELSE 1 + CHOOSE k \in Slashes(s) : before(k) = n - 2
         to   == IF n = Cardinality(Slashes(s)) + 1 THEN Len(s)
                 ELSE (CHOOSE k \in Slashes(s) : before(k) = n - 1) - 1
     IN  SubSeq(s, from, to)]

\* segs.join('/')
RECURSIVE JoinSegs(_)
JoinSegs(segs) ==
  IF segs = <<>> THEN <<>>
  ELSE IF Len(segs) = 1 THEN segs[1]
  ELSE segs[1] \o <<"/">>
       \o (CHOOSE r \in {JoinSegs(x) : x \in {Tail(segs)}} : TRUE)

\* path.normalize's segment walk: "" and "." are dropped, ".." removes the
\* segment before it, or is kept when there is none and the path is relative
RECURSIVE NormalizeSegs(_, _, _)
NormalizeSegs(segs, res, allowAboveRoot) ==
  IF segs = <<>> THEN res
  ELSE LET seg  == Head(segs)
           kept == IF seg = <<>> \/ seg = <<".">> THEN res
                   ELSE IF seg = <<".", ".">>
                   THEN IF res # <<>> /\ Last(res) # <<".", ".">>
                        THEN Front(res)
                        ELSE IF allowAboveRoot THEN Append(res, seg) ELSE res
                   ELSE Append(res, seg)
       IN  CHOOSE r \in {NormalizeSegs(x, y, allowAboveRoot) :
                           x \in {Tail(segs)}, y \in {kept}} : TRUE

\* path.normalize
NormalizeText(p) ==
  IF p = <<>> THEN <<".">>
  ELSE LET isAbsolute    == p[1] = "/"
           trailingSlash == Last(p) = "/"
           body0 == JoinSegs(NormalizeSegs(Split(p), <<>>, ~isAbsolute))
           body1 == IF body0 = <<>> /\ ~isAbsolute THEN <<".">> ELSE body0
           body2 == IF body1 # <<>> /\ trailingSlash
                    THEN body1 \o <<"/">> ELSE body1
       IN  IF isAbsolute THEN <<"/">> \o body2 ELSE body2

Normalize(p) == CHOOSE r \in {NormalizeText(x) : x \in {p}} : TRUE

\* path.join(a, b) for two texts: the non-empty ones joined by "/", normalized
PathJoin(a, b) ==
  LET joined == IF a = <<>> THEN b
                ELSE IF b = <<>> THEN a
                ELSE a \o <<"/">> \o b
  IN  IF joined = <<>> THEN <<".">> ELSE Normalize(joined)

\* path.basename(p): the last non-empty segment, "" when there is none
RECURSIVE LastNonEmpty(_)
LastNonEmpty(segs) ==
  IF segs = <<>> THEN <<>>
  ELSE IF Last(segs) # <<>> THEN Last(segs)
  ELSE CHOOSE r \in {LastNonEmpty(x) : x \in {Front(segs)}} : TRUE

Basename(p) == LastNonEmpty(Split(p))

(* ------------------------------ cuid ---------------------------------- *)

Digits == <<"0", "1", "2", "3", "4", "5", "6", "7", "8", "9">>

\* the decimal text of a natural number
RECURSIVE ToText(_)
ToText(n) ==
  IF n < 10 THEN <<Digits[n + 1]>>
  ELSE ToText(n \div 10) \o <<Digits[(n % 10) + 1]>>

\* cuid(): "c" followed by blocks of which the per-process call counter is
\* the one that tells two identifiers of one process apart
CuidText(c) == <<"c">> \o ToText(c)

(* ------------------------------- ajv ---------------------------------- *)

Undefined == [t |-> "undefined", v |-> <<>>]

\* obj[name], undefined when the object has no such property
Get(obj, name) == IF name \in DOMAIN obj THEN obj[name] ELSE Undefined

\* the options the validator instance is built with; allErrors is not given
\* and keeps its default
AjvOptions == [removeAdditional |-> FALSE, allErrors |-> FALSE]

NoType == "any"

ConfigSchema ==
  [ additionalProperties |-> FALSE,
    required   |-> <<>>,
    properties |-> <<
      [name |-> "upload_folder", type |-> "string", minLength |-> 1,
       hasEnum |-> FALSE, enum |-> {}] >> ]

\* the schema without additionalProperties: false
HandlerSchemaOpen ==
  [ additionalProperties |-> TRUE,
    required   |-> <<"processImageFunction", "s3_key", "s3_bucket_name",
                     "s3_output_dir">>,
    properties |-> <<
      [name |-> "processImageFunction", type |-> NoType, minLength |-> 0,
       hasEnum |-> TRUE,
       enum |-> {Str(<<"processImage3">>), Str(<<"processImage4">>)}],
      [name |-> "s3_key", type |-> "string", minLength |-> 1,
       hasEnum |-> FALSE, enum |-> {}],
      [name |-> "s3_bucket_name", type |-> "string", minLength |-> 1,
       hasEnum |-> FALSE, enum |-> {}],
      [name |-> "s3_output_dir", type |-> "string", minLength |-> 1,
       hasEnum |-> FALSE, enum |-> {}],
      [name |-> "versions", type |-> "array", minLength |-> 0,
       hasEnum |-> FALSE, enum |-> {}] >> ]

HandlerSchema ==
  [ additionalProperties |-> FALSE,
    required   |-> <<"processImageFunction", "s3_key", "s3_bucket_name",
                     "s3_output_dir">>,
    properties |-> <<
      [name |-> "processImageFunction", type |-> NoType, minLength |-> 0,
       hasEnum |-> TRUE,
       enum |-> {Str(<<"processImage3">>), Str(<<"processImage4">>)}],
      [name |-> "s3_key", type |-> "string", minLength |-> 1,
       hasEnum |-> FALSE, enum |-> {}],
      [name |-> "s3_bucket_name", type |-> "string", minLength |-> 1,
       hasEnum |-> FALSE, enum |-> {}],
      [name |-> "s3_output_dir", type |-> "string", minLength |-> 1,
       hasEnum |-> FALSE, enum |-> {}],
      [name |-> "versions", type |-> "array", minLength |-> 0,
       hasEnum |-> FALSE, enum |-> {}] >> ]

AjvError(keyword, dataPath, param) ==
  [keyword |-> keyword, dataPath |-> dataPath, param |-> param]

\* the keyword "required": one violation per missing name, in schema order
RECURSIVE RequiredViolations(_, _)
RequiredViolations(required, data) ==
  IF required = <<>> THEN <<>>
  ELSE (IF Head(required) \in DOMAIN data THEN <<>>
        ELSE <<AjvError("required", "", Head(required))>>)
       \o RequiredViolations(Tail(required), data)

PropertyNames(schema) ==
  {schema.properties[k].name : k \in 1..Len(schema.properties)}

\* the keyword "additionalProperties: false": one violation per property of
\* the data that the schema does not name
RECURSIVE AdditionalViolations(_)
AdditionalViolations(names) ==
  IF names = {} THEN <<>>
  ELSE LET n == CHOOSE n \in names : TRUE
       IN  <<AjvError("additionalProperties", "", n)>>
           \o AdditionalViolations(names \ {n})

\* one property's sub-schema against its value: type, then minLength, enum
ValueViolations(p, x) ==
  (IF p.type # NoType /\ x.t # p.type
   THEN <<AjvError("type", p.name, p.type)>>
   ELSE IF p.type = "string" /\ Len(x.v) < p.minLength
   THEN <<AjvError("minLength", p.name, "")>>
   ELSE <<>>)
  \o (IF p.hasEnum /\ x \notin p.enum
      THEN <<AjvError("enum", p.name, "")>>
      ELSE <<>>)

RECURSIVE PropertiesViolations(_, _)
PropertiesViolations(props, data) ==
  IF props = <<>> THEN <<>>
  ELSE (IF Head(props).name \in DOMAIN data
        THEN ValueViolations(Head(props), data[Head(props).name])
        ELSE <<>>)
       \o PropertiesViolations(Tail(props), data)

\* every violation of the schema by the data, in the order the compiled
\* validator meets them
Violations(schema, data) ==
  RequiredViolations(schema.required, data)
  \o (IF schema.additionalProperties THEN <<>>
      ELSE AdditionalViolations(DOMAIN data \ PropertyNames(schema)))
  \o PropertiesViolations(schema.properties, data)

\* ajv.validate(schema, data): the value left in ajv.errors (<<>> for null,
\* the data being valid); without allErrors the validator returns at the
\* first violation
AjvValidate(schema, data) ==
  LET all == Violations(schema, data)
  IN  IF AjvOptions.allErrors \/ all = <<>> THEN all ELSE <<Head(all)>>

\* ajv.errorsText(): the violations' texts joined by ", "
RECURSIVE ErrorsText(_)
ErrorsText(errs) ==
  IF errs = <<>> THEN <<"No errors">>
  ELSE LET e    == Head(errs)
           text == <<"data">> \o <<e.dataPath, " ", e.keyword, " ", e.param>>
       IN  IF Len(errs) = 1 THEN text
           ELSE text \o <<", ">> \o ErrorsText(Tail(errs))

(* ------------------------------ errors -------------------------------- *)

\* an Error object: its constructor, its message and, for a validation
\* error, the violations attached as e.ajv
MkError(type, message, ajv) ==
  [type |-> type, message |-> message, ajv |-> ajv]

NoError == MkError("", <<>>, <<>>)

\* new Error(ajv.errorsText()) with e.ajv = ajv.errors
ValidationError(errors) == MkError("Error", ErrorsText(errors), errors)

(* ------------------------------ inputs -------------------------------- *)

\* an object literal: the properties whose value is not undefined
Object(full) == [n \in {m \in DOMAIN full : full[m] # Undefined} |-> full[n]]

MkEvent(fn, key, bucket, out, versions, extra) ==
  Object([processImageFunction |-> fn, s3_key |-> key,
          s3_bucket_name |-> bucket, s3_output_dir |-> out,
          versions |-> versions, extra |-> extra])

PhotoKey  == <<"img", "/", "photo.jpg">>
OutPrefix == <<"out", "/", "2024">>

OkEvent ==
  MkEvent(Str(<<"processImage3">>), Str(PhotoKey), Str(<<"bucket">>),
          Str(OutPrefix), Arr(<<"w400">>), Undefined)

\* s3_key is missing and an unknown property is present
BadEvent ==
  MkEvent(Str(<<"processImage3">>), Undefined, Str(<<"bucket">>),
          Str(OutPrefix), Undefined, Str(<<"x">>))

\* another bucket, key, prefix and function, and no versions
OkEvent2 ==
  MkEvent(Str(<<"processImage4">>), Str(<<"logo.png">>), Str(<<"assets">>),
          Str(<<"thumbs", "/">>), Undefined, Undefined)

\* the events of the interleaved runs
Events == {OkEvent, OkEvent2, BadEvent}

\* the events of the single-invocation runs: every combination of these
AllEvents ==
  { MkEvent(fn, key, bucket, out, versions, extra) :
      fn \in {Undefined, Str(<<"processImage3">>), Str(<<"processImage4">>),
              Str(<<"processImage5">>)},
      key \in {Undefined, Str(<<>>), Str(PhotoKey), Str(<<"photo.jpg">>),
               Str(<<"img", "/", "photo.jpg", "/">>), Str(<<"/">>),
               Num(<<"5">>)},
      bucket \in {Undefined, Str(<<>>), Str(<<"bucket">>)},
      out \in {Undefined, Str(<<>>), Str(OutPrefix),
               Str(<<"out", "/", "/", ".", "/">>)},
      versions \in {Undefined, Arr(<<>>), Arr(<<"w400">>), Str(<<"w400">>)},
      extra \in {Undefined, Str(<<"x">>)} }

\* the options given to config
ConfigInputs ==
  { Object([upload_folder |-> Undefined, other |-> Undefined]),
    Object([upload_folder |-> Str(<<"/", "data">>), other |-> Undefined]),
    Object([upload_folder |-> Str(<<"/", "srv", "/", "img", "/">>),
            other |-> Undefined]),
    Object([upload_folder |-> Str(<<>>), other |-> Undefined]),
    Object([upload_folder |-> Num(<<"5">>), other |-> Undefined]),
    Object([upload_folder |-> Undefined, other |-> Str(<<"x">>)]),
    Object([upload_folder |-> Str(<<"/", "data">>), other |-> Str(<<"x">>)]),
    Object([upload_folder |-> Str(<<>>), other |-> Str(<<"x">>)]) }

\* the options of the runs where config calls and invocations interleave
Options ==
  { Object([upload_folder |-> Str(<<"/", "data">>), other |-> Undefined]),
    Object([upload_folder |-> Str(<<"/", "srv", "/", "img", "/">>),
            other |-> Undefined]),
    Object([upload_folder |-> Str(<<>>), other |-> Str(<<"x">>)]) }

\* what a processing function may resolve with for the file f: a mapping
\* from file names to the names of the derived files
Derived1  == <<"photo_e.jpg">>
Derived2  == <<"photo_e400.jpg">>
OtherName == <<"other.jpg">>

Manifests(f) ==
  { [n \in {f} |-> <<Derived1, Derived2>>],
    [n \in {f} |-> <<Derived2>>],
    [n \in {f} |-> <<>>],
    [n \in {OtherName} |-> <<Derived1>>],
    [n \in {f, OtherName} |-> IF n = f THEN <<Derived2, Derived1>>
                              ELSE <<Derived1>>] }

\* the errors the collaborators fail with
MkdirpError    == MkError("Error", <<"EACCES">>, <<>>)
GetObjectError == MkError("Error", <<"NoSuchKey">>, <<>>)
WriteFileError == MkError("Error", <<"ENOSPC">>, <<>>)
ProcessError   == MkError("Error", <<"ProcessingFailed">>, <<>>)
UploadError    == MkError("Error", <<"UploadFailed">>, <<>>)
RimrafError    == MkError("Error", <<"EBUSY">>, <<>>)
\* reading [0] of undefined, or path.join given undefined
ProjectError   == MkError("TypeError", <<"not a string">>, <<>>)

(* ------------------------------- state -------------------------------- *)

VARIABLES
  upload_folder,  \* module_config.upload_folder
  cuid_c,         \* the call counter inside cuid
  ajv_errors,     \* ajv.errors of the one validator instance (<<>>: null)
  dirs,           \* the directories that exist on the local disk
  ncalls,         \* handler invocations made so far
  pc,             \* per invocation: the callback of the chain that runs next
  event,          \* per invocation: the event it was called with
  opts,           \* per invocation: file_name, input_dir, output_dir
  return_value,   \* per invocation: <<>> for {}, <<[key |-> k]>> once data is set
  resp,           \* per invocation: what the processing function resolved with
  promise,        \* per invocation: the promise handler returned
  log,            \* per invocation: the collaborator calls it made, in order
  raised,         \* per invocation: the errors thrown or rejected with, in order
  reported,       \* per invocation: the values given to context.succeed
  ncfg,           \* config calls made so far
  cpc,            \* per config call: the callback that runs next
  copts,          \* per config call: the options it was called with
  cpromise        \* per config call: the promise config returned

hvars == <<cuid_c, dirs, ncalls, pc, event, opts, return_value, resp, promise,
           log, raised, reported>>
cvars == <<ncfg, cpc, copts, cpromise>>
vars  == <<upload_folder, ajv_errors, hvars, cvars>>

DefaultRoot == <<"/", "tmp", "/", "images", "/">>

Pending      == [state |-> "pending",   reason |-> NoError]
Fulfilled    == [state |-> "fulfilled", reason |-> NoError]
Rejected(e)  == [state |-> "rejected",  reason |-> e]

NoEvent    == Object([s3_key |-> Undefined])
NoOpts     == [file_name |-> JsNull, input_dir |-> <<>>, output_dir |-> <<>>]
NoManifest == [n \in {} |-> <<>>]

\* directories named without an identifier
NewOptsFixed(root, c) ==
  [ file_name  |-> JsNull,
    input_dir  |-> PathJoin(root, <<"/", "input", "/">>),
    output_dir |-> PathJoin(root, <<"/", "output", "/">>) ]

\* directories under the default root, whatever the configuration holds
NewOptsDefaultRoot(root, c) ==
  [ file_name  |-> JsNull,
    input_dir  |-> PathJoin(DefaultRoot,
                            <<"/", "input-">> \o CuidText(c + 1) \o <<"/">>),
    output_dir |-> PathJoin(DefaultRoot,
                            <<"/", "output-">> \o CuidText(c + 2) \o <<"/">>) ]

\* the opts literal of handler, with c the value of cuid's counter
NewOpts(root, c) ==
  [ file_name  |-> JsNull,
    input_dir  |-> PathJoin(root, <<"/", "input-">> \o CuidText(c + 1) \o <<"/">>),
    output_dir |-> PathJoin(root, <<"/", "output-">> \o CuidText(c + 2) \o <<"/">>) ]

ConfigInit ==
  /\ ncfg = 0
  /\ cpc = [k \in Cfg |-> "Idle"]
  /\ copts = [k \in Cfg |-> NoEvent]
  /\ cpromise = [k \in Cfg |-> Pending]

Init ==
  /\ upload_folder = DefaultRoot
  /\ cuid_c = 0
  /\ ajv_errors = <<>>
  /\ dirs = {}
  /\ ncalls = 0
  /\ pc = [i \in Inv |-> "Idle"]
  /\ event = [i \in Inv |-> NoEvent]
  /\ opts = [i \in Inv |-> NoOpts]
  /\ return_value = [i \in Inv |-> <<>>]
  /\ resp = [i \in Inv |-> NoManifest]
  /\ promise = [i \in Inv |-> Pending]
  /\ log = [i \in Inv |-> <<>>]
  /\ raised = [i \in Inv |-> <<>>]
  /\ reported = [i \in Inv |-> <<>>]
  /\ ConfigInit

(* --------------------------- the promise chain ------------------------ *)

\* a chain that creates the workspace before it validates the event
ChainWorkspaceFirst ==
  << "PreparingInput", "PreparingOutput", "Validating", "NamingFile",
     "FetchingSource", "WritingSource", "Processing", "ProjectingResult",
     "UploadingResults", "CleaningInput", "CleaningOutput", "Returning" >>

\* a chain that uploads the output directory before it is filled
ChainUploadFirst ==
  << "Validating", "PreparingInput", "PreparingOutput", "NamingFile",
     "FetchingSource", "WritingSource", "UploadingResults", "Processing",
     "ProjectingResult", "CleaningInput", "CleaningOutput", "Returning" >>

\* the callbacks of handler's chain, in the order of their .then
Chain ==
  << "Validating", "PreparingInput", "PreparingOutput", "NamingFile",
     "FetchingSource", "WritingSource", "Processing", "ProjectingResult",
     "UploadingResults", "CleaningInput", "CleaningOutput", "Returning" >>

IndexOf(stage) == CHOOSE k \in 1..Len(Chain) : Chain[k] = stage

\* a removal whose callback never resolves its promise
OnFulfilledNoResolve(stage) ==
  IF stage = "CleaningOutput" THEN "CleaningOutputPending"
  ELSE IF IndexOf(stage) < Len(Chain) THEN Chain[IndexOf(stage) + 1]
  ELSE "Done"

\* a callback that returns, or whose promise fulfils, hands over to the
\* callback of the next .then
OnFulfilled(stage) ==
  IF IndexOf(stage) < Len(Chain) THEN Chain[IndexOf(stage) + 1] ELSE "Done"

\* a rejection handler that swallows the error: the chain goes on
OnRejectedSwallow(stage) == OnFulfilled(stage)

\* a rejection handler that sends every failure on to the cleanup
OnRejectedCleanup(stage) ==
  IF stage \in {"CleaningInput", "CleaningOutput"} THEN "Failed"
  ELSE "CleaningInput"

\* a rejection handler that takes a failed projection as an empty result
OnRejectedProjection(stage) ==
  IF stage = "ProjectingResult" THEN OnFulfilled(stage) ELSE "Failed"

\* a callback that throws, or whose promise rejects: no .then of the chain
\* has a rejection handler and there is no .catch or .finally, so every
\* later callback is skipped and the returned promise rejects
OnRejected(stage) == "Failed"

\* the part of the pipeline a callback of the chain belongs to
StageName(stage) ==
  CASE stage = "Validating" -> "validation"
    [] stage \in {"PreparingInput", "PreparingOutput"} -> "workspace creation"
    [] stage \in {"NamingFile", "FetchingSource", "WritingSource"} -> "ingress"
    [] stage \in {"Processing", "ProjectingResult"} -> "processing"
    [] stage = "UploadingResults" -> "egress"
    [] OTHER -> "cleanup"

\* an error wrapped with the name of its stage
PropagateAnnotated(stage, e) ==
  MkError(e.type, <<StageName(stage), ": ">> \o e.message, e.ajv)

\* the reason the returned promise rejects with: the error itself
Propagate(stage, e) == e

Advance(i, stage) ==
  /\ pc' = [pc EXCEPT ![i] = OnFulfilled(stage)]
  /\ UNCHANGED <<promise, raised>>

Throw(i, stage, e) ==
  /\ raised' = [raised EXCEPT ![i] = Append(@, [stage |-> stage, error |-> e])]
  /\ pc' = [pc EXCEPT ![i] = OnRejected(stage)]
  /\ promise' = IF OnRejected(stage) = "Failed"
                THEN [promise EXCEPT ![i] = Rejected(Propagate(stage, e))]
                ELSE promise

Call(op, args, ok) == [op |-> op, args |-> args, ok |-> ok]

Logged(i, op, args, ok) == log' = [log EXCEPT ![i] = Append(@, Call(op, args, ok))]

(* ------------------------------ handler ------------------------------- *)

\* a handler that puts the configuration back to its default on entry
HandlerCallResetsRoot(ev) ==
  /\ ncalls < MaxInv
  /\ LET i == ncalls + 1
     IN  /\ ncalls' = i
         /\ event' = [event EXCEPT ![i] = ev]
         /\ opts' = [opts EXCEPT ![i] = NewOpts(upload_folder, cuid_c)]
         /\ cuid_c' = cuid_c + 2
         /\ return_value' = [return_value EXCEPT ![i] = <<>>]
         /\ pc' = [pc EXCEPT ![i] = Chain[1]]
  /\ upload_folder' = DefaultRoot
  /\ UNCHANGED <<ajv_errors, dirs, resp, promise, log, raised, reported, cvars>>

\* handler(event, context) up to the return of the promise: opts is built
\* from the configuration and two fresh identifiers, return_value is {}
HandlerCall(ev) ==
  /\ ncalls < MaxInv
  /\ LET i == ncalls + 1
     IN  /\ ncalls' = i
         /\ event' = [event EXCEPT ![i] = ev]
         /\ opts' = [opts EXCEPT ![i] = NewOpts(upload_folder, cuid_c)]
         /\ cuid_c' = cuid_c + 2
         /\ return_value' = [return_value EXCEPT ![i] = <<>>]
         /\ pc' = [pc EXCEPT ![i] = Chain[1]]
  /\ UNCHANGED <<upload_folder, ajv_errors, dirs, resp, promise, log, raised,
                 reported, cvars>>

\* a validation callback that reads the errors the validator held before
\* this validation, those of an earlier call
ValidateReadsEarlier(i) ==
  /\ pc[i] = "Validating"
  /\ ajv_errors' = AjvValidate(HandlerSchema, event[i])
  /\ IF ajv_errors' # <<>>
     THEN Throw(i, "Validating", ValidationError(ajv_errors))
     ELSE Advance(i, "Validating")
  /\ UNCHANGED <<upload_folder, cuid_c, dirs, ncalls, event, opts,
                 return_value, resp, log, reported, cvars>>

\* validation of the event against the schema
Validate(i) ==
  /\ pc[i] = "Validating"
  /\ ajv_errors' = AjvValidate(HandlerSchema, event[i])
  /\ IF ajv_errors' # <<>>
     THEN Throw(i, "Validating", ValidationError(ajv_errors'))
     ELSE Advance(i, "Validating")
  /\ UNCHANGED <<upload_folder, cuid_c, dirs, ncalls, event, opts,
                 return_value, resp, log, reported, cvars>>

\* mkdirp(path) and its callback
Mkdirp(i, stage, path) ==
  /\ pc[i] = stage
  /\ \E ok \in BOOLEAN :
       /\ Logged(i, "mkdirp", <<Str(path)>>, ok)
       /\ dirs' = IF ok THEN dirs \cup {path} ELSE dirs
       /\ IF ok THEN Advance(i, stage) ELSE Throw(i, stage, MkdirpError)
  /\ UNCHANGED <<upload_folder, ajv_errors, cuid_c, ncalls, event, opts,
                 return_value, resp, reported, cvars>>

MkdirpInput(i)  == Mkdirp(i, "PreparingInput", opts[i].input_dir)

MkdirpOutput(i) == Mkdirp(i, "PreparingOutput", opts[i].output_dir)

\* opts.file_name = path.basename(event.s3_key)
SetFileName(i) ==
  /\ pc[i] = "NamingFile"
  /\ opts' = [opts EXCEPT ![i].file_name = Str(Basename(event[i].s3_key.v))]
  /\ Advance(i, "NamingFile")
  /\ UNCHANGED <<upload_folder, ajv_errors, cuid_c, dirs, ncalls, event,
                 return_value, resp, log, reported, cvars>>

\* awsWrapper.S3Wrapper.getObject and its settlement
GetObject(i) ==
  /\ pc[i] = "FetchingSource"
  /\ \E ok \in BOOLEAN :
       /\ Logged(i, "getObject",
                 <<event[i].s3_bucket_name, event[i].s3_key>>, ok)
       /\ IF ok THEN Advance(i, "FetchingSource")
          ELSE Throw(i, "FetchingSource", GetObjectError)
  /\ UNCHANGED <<upload_folder, ajv_errors, cuid_c, dirs, ncalls, event, opts,
                 return_value, resp, reported, cvars>>

\* fs.writeFileAsync(path.join(opts.input_dir, opts.file_name), buffer); a
\* path that names the directory itself cannot be written
WriteFile(i) ==
  /\ pc[i] = "WritingSource"
  /\ \E ok \in BOOLEAN :
       /\ opts[i].file_name.v = <<>> => ~ok
       /\ Logged(i, "writeFile",
                 <<Str(PathJoin(opts[i].input_dir, opts[i].file_name.v))>>, ok)
       /\ IF ok THEN Advance(i, "WritingSource")
          ELSE Throw(i, "WritingSource", WriteFileError)
  /\ UNCHANGED <<upload_folder, ajv_errors, cuid_c, dirs, ncalls, event, opts,
                 return_value, resp, reported, cvars>>

\* imageFunctions[event.processImageFunction](process_opts) and its settlement
Process(i) ==
  /\ pc[i] = "Processing"
  /\ LET args == <<event[i].processImageFunction, Str(opts[i].input_dir),
                   Str(opts[i].output_dir), Get(event[i], "versions")>>
     IN  \/ \E m \in Manifests(opts[i].file_name.v) :
              /\ Logged(i, "processImage", args, TRUE)
              /\ resp' = [resp EXCEPT ![i] = m]
              /\ Advance(i, "Processing")
         \/ /\ Logged(i, "processImage", args, FALSE)
            /\ resp' = resp
            /\ Throw(i, "Processing", ProcessError)
  /\ UNCHANGED <<upload_folder, ajv_errors, cuid_c, dirs, ncalls, event, opts,
                 return_value, reported, cvars>>

\* resp[opts.file_name][0] is a string: the entry exists and is not empty.
\* Otherwise reading [0] of undefined, or path.join given undefined, throws
HasPrimary(m, f) == f \in DOMAIN m /\ m[f] # <<>>

\* the last derived name instead of the first
ResultKeyLast(outdir, m, f) == PathJoin(outdir, m[f][Len(m[f])])

\* path.join(event.s3_output_dir, resp[opts.file_name][0])
ResultKey(outdir, m, f) == PathJoin(outdir, m[f][1])

\* return_value.data = {key: ...}
Project(i) ==
  /\ pc[i] = "ProjectingResult"
  /\ IF HasPrimary(resp[i], opts[i].file_name.v)
     THEN /\ return_value' = [return_value EXCEPT ![i] =
               <<[key |-> ResultKey(event[i].s3_output_dir.v, resp[i],
                                    opts[i].file_name.v)]>>]
          /\ Advance(i, "ProjectingResult")
     ELSE /\ return_value' = return_value
          /\ Throw(i, "ProjectingResult", ProjectError)
  /\ UNCHANGED <<upload_folder, ajv_errors, cuid_c, dirs, ncalls, event, opts,
                 resp, log, reported, cvars>>

Acl          == <<"public-read">>
CacheControl == <<"15552000">>

\* awsWrapper.S3Wrapper.uploadFiles and its settlement
UploadFiles(i) ==
  /\ pc[i] = "UploadingResults"
  /\ \E ok \in BOOLEAN :
       /\ Logged(i, "uploadFiles",
                 <<Str(opts[i].output_dir), event[i].s3_bucket_name,
                   event[i].s3_output_dir, Str(Acl), Num(CacheControl)>>, ok)
       /\ IF ok THEN Advance(i, "UploadingResults")
          ELSE Throw(i, "UploadingResults", UploadError)
  /\ UNCHANGED <<upload_folder, ajv_errors, cuid_c, dirs, ncalls, event, opts,
                 return_value, resp, reported, cvars>>

\* rimraf(path) and its callback
Rimraf(i, stage, path) ==
  /\ pc[i] = stage
  /\ \E ok \in BOOLEAN :
       /\ Logged(i, "rimraf", <<Str(path)>>, ok)
       /\ dirs' = IF ok THEN dirs \ {path} ELSE dirs
       /\ IF ok THEN Advance(i, stage) ELSE Throw(i, stage, RimrafError)
  /\ UNCHANGED <<upload_folder, ajv_errors, cuid_c, ncalls, event, opts,
                 return_value, resp, reported, cvars>>

\* a removal that is given the input directory of the first invocation
RimrafInputOfFirst(i) == Rimraf(i, "CleaningInput", opts[1].input_dir)

RimrafInput(i)  == Rimraf(i, "CleaningInput", opts[i].input_dir)

\* a second removal that is given the input directory again
RimrafOutputAgainInput(i) == Rimraf(i, "CleaningOutput", opts[i].input_dir)

RimrafOutput(i) == Rimraf(i, "CleaningOutput", opts[i].output_dir)

\* context.succeed(return_value); the returned promise fulfils
Succeed(i) ==
  /\ pc[i] = "Returning"
  /\ reported' = [reported EXCEPT ![i] = Append(@, return_value[i])]
  /\ pc' = [pc EXCEPT ![i] = OnFulfilled("Returning")]
  /\ promise' = [promise EXCEPT ![i] = Fulfilled]
  /\ UNCHANGED <<upload_folder, ajv_errors, cuid_c, dirs, ncalls, event, opts,
                 return_value, resp, log, raised, cvars>>

HandlerStep(i) ==
  \/ Validate(i)
  \/ MkdirpInput(i)
  \/ MkdirpOutput(i)
  \/ SetFileName(i)
  \/ GetObject(i)
  \/ WriteFile(i)
  \/ Process(i)
  \/ Project(i)
  \/ UploadFiles(i)
  \/ RimrafInput(i)
  \/ RimrafOutput(i)
  \/ Succeed(i)

(* ------------------------------- config ------------------------------- *)

\* config(opts) up to the return of the promise
ConfigCall(o) ==
  /\ ncfg < MaxCfg
  /\ ncfg' = ncfg + 1
  /\ copts' = [copts EXCEPT ![ncfg + 1] = o]
  /\ cpc' = [cpc EXCEPT ![ncfg + 1] = "Validating"]
  /\ UNCHANGED <<upload_folder, ajv_errors, hvars, cpromise>>

\* a validation callback that stores the root before it validates
ConfigValidateAssignFirst(k) ==
  /\ cpc[k] = "Validating"
  /\ ajv_errors' = AjvValidate(ConfigSchema, copts[k])
  /\ upload_folder' = IF "upload_folder" \in DOMAIN copts[k]
                      THEN copts[k].upload_folder.v
                      ELSE upload_folder
  /\ IF ajv_errors' # <<>>
     THEN /\ cpc' = [cpc EXCEPT ![k] = "Failed"]
          /\ cpromise' = [cpromise EXCEPT ![k] =
                            Rejected(ValidationError(ajv_errors'))]
     ELSE /\ cpc' = [cpc EXCEPT ![k] = "Assigning"]
          /\ cpromise' = cpromise
  /\ UNCHANGED <<hvars, ncfg, copts>>

\* validation of the options against the schema
ConfigValidate(k) ==
  /\ cpc[k] = "Validating"
  /\ ajv_errors' = AjvValidate(ConfigSchema, copts[k])
  /\ IF ajv_errors' # <<>>
     THEN /\ cpc' = [cpc EXCEPT ![k] = "Failed"]
          /\ cpromise' = [cpromise EXCEPT ![k] =
                            Rejected(ValidationError(ajv_errors'))]
     ELSE /\ cpc' = [cpc EXCEPT ![k] = "Assigning"]
          /\ cpromise' = cpromise
  /\ UNCHANGED <<upload_folder, hvars, ncfg, copts>>

\* a test that never takes the branch
TruthyNever(x) == FALSE

\* a value that an if takes as true
Truthy(x) == x.t \notin {"undefined", "null"} /\ ~(x.t = "string" /\ x.v = <<>>)

\* if (opts.upload_folder) module_config.upload_folder = opts.upload_folder
ConfigAssign(k) ==
  /\ cpc[k] = "Assigning"
  /\ upload_folder' = IF Truthy(Get(copts[k], "upload_folder"))
                      THEN copts[k].upload_folder.v
                      ELSE upload_folder
  /\ cpc' = [cpc EXCEPT ![k] = "Done"]
  /\ cpromise' = [cpromise EXCEPT ![k] = Fulfilled]
  /\ UNCHANGED <<ajv_errors, hvars, ncfg, copts>>

(* --------------------------- specifications --------------------------- *)

\* interleaved handler invocations and config calls
Next ==
  \/ \E ev \in Events : HandlerCall(ev)
  \/ \E i \in Inv : HandlerStep(i)
  \/ \E o \in Options : ConfigCall(o)
  \/ \E k \in Cfg : ConfigValidate(k)
  \/ \E k \in Cfg : ConfigAssign(k)

Spec == Init /\ [][Next]_vars

\* config calls alone, with any options
ConfigNext ==
  \/ \E o \in ConfigInputs : ConfigCall(o)
  \/ \E k \in Cfg : ConfigValidate(k)
  \/ \E k \in Cfg : ConfigAssign(k)

ConfigSpec == Init /\ [][ConfigNext]_vars

\* interleaved handler invocations on a configuration nobody changes
HandlerNext ==
  \/ \E ev \in Events : HandlerCall(ev)
  \/ \E i \in Inv : HandlerStep(i)

HandlerSpec == Init /\ [][HandlerNext]_vars

\* the same, where every queued callback is run and every collaborator
\* call settles
HandlerFairSpec ==
  Init /\ [][HandlerNext]_vars /\ \A i \in Inv : WF_vars(HandlerStep(i))

\* one invocation, on the default configuration, with any event
OneInit ==
  /\ upload_folder = DefaultRoot
  /\ cuid_c = 2
  /\ ajv_errors = <<>>
  /\ dirs = {}
  /\ ncalls = 1
  /\ pc = [i \in Inv |-> IF i = 1 THEN Chain[1] ELSE "Idle"]
  /\ event \in {[i \in Inv |-> IF i = 1 THEN ev ELSE NoEvent] : ev \in AllEvents}
  /\ opts = [i \in Inv |-> IF i = 1 THEN NewOpts(DefaultRoot, 0) ELSE NoOpts]
  /\ return_value = [i \in Inv |-> <<>>]
  /\ resp = [i \in Inv |-> NoManifest]
  /\ promise = [i \in Inv |-> Pending]
  /\ log = [i \in Inv |-> <<>>]
  /\ raised = [i \in Inv |-> <<>>]
  /\ reported = [i \in Inv |-> <<>>]
  /\ ConfigInit

OneNext == \E i \in Inv : HandlerStep(i)

OneSpec == OneInit /\ [][OneNext]_vars

\* the same, where every queued callback is run and every collaborator
\* call settles
OneFairSpec ==
  OneInit /\ [][OneNext]_vars /\ \A i \in Inv : WF_vars(HandlerStep(i))

(* ------------------------- reading the history ------------------------ *)

Started(i)  == pc[i] # "Idle"
Settled(i)  == promise[i].state # "pending"
Succeeded(i) == reported[i] # <<>>

\* the positions in the log of invocation i of the calls of op
CallsOf(i, op) == {k \in 1..Len(log[i]) : log[i][k].op = op}

\* the calls of op on the given first argument
CallsOn(i, op, arg) == {k \in CallsOf(i, op) : log[i][k].args[1] = arg}

Called(i, op)   == CallsOf(i, op) # {}
CalledOk(i, op) == \E k \in CallsOf(i, op) : log[i][k].ok
Failed(i, op)   == \E k \in CallsOf(i, op) : ~log[i][k].ok

\* the stage at which invocation i met its first error
FailedAt(i, stage) == raised[i] # <<>> /\ raised[i][1].stage = stage

\* both workspace directories of invocation i were created
WorkspaceCreated(i) ==
  /\ \E k \in CallsOn(i, "mkdirp", Str(opts[i].input_dir)) : log[i][k].ok
  /\ \E k \in CallsOn(i, "mkdirp", Str(opts[i].output_dir)) : log[i][k].ok

(* ------------------------------- claims ------------------------------- *)

\* C1: for every settled invocation whose two workspace directories were
\* created, removal of each directory was attempted exactly once, whatever
\* the exit path (success, failed fetch, failed processing, failed upload).
C1_CleanupOnEveryExit ==
  \A i \in Inv :
    (Settled(i) /\ WorkspaceCreated(i)) =>
      /\ Cardinality(CallsOn(i, "rimraf", Str(opts[i].input_dir))) = 1
      /\ Cardinality(CallsOn(i, "rimraf", Str(opts[i].output_dir))) = 1

\* C2: a failure of a stage other than cleanup ends the non-cleanup work of
\* the invocation: after a failed collaborator call only removals may
\* follow; no call at all follows a failed validation, no getObject a failed
\* directory creation, no processing or upload a failed fetch or write, no
\* upload a failed processing or projection.
C2_ShortCircuit ==
  \A i \in Inv :
    /\ \A k \in 1..Len(log[i]) :
         (~log[i][k].ok /\ log[i][k].op # "rimraf") =>
           \A j \in (k + 1)..Len(log[i]) : log[i][j].op = "rimraf"
    /\ FailedAt(i, "Validating") => log[i] = <<>>
    /\ Failed(i, "mkdirp") => ~Called(i, "getObject")
    /\ (Failed(i, "getObject") \/ Failed(i, "writeFile")) =>
         (~Called(i, "processImage") /\ ~Called(i, "uploadFiles"))
    /\ (Failed(i, "processImage") \/ FailedAt(i, "ProjectingResult")) =>
         ~Called(i, "uploadFiles")

C2_Witness ==
  \E i \in Inv :
    /\ promise[i].state = "rejected"
    /\ Failed(i, "processImage")
    /\ \E j \in Inv : j # i /\ Failed(j, "getObject") /\ Settled(j)

\* C3: while the validation of an invocation's event has not completed, and
\* for ever when the event fails it, the invocation has made no collaborator
\* call (no directory created, no object fetched, nothing processed or
\* uploaded) and neither of its directories exists.
C3_ValidationGate ==
  \A i \in Inv :
    (pc[i] \in {"Idle", "Validating"} \/ Violations(HandlerSchema, event[i]) # <<>>) =>
      /\ log[i] = <<>>
      /\ opts[i].input_dir \notin dirs
      /\ opts[i].output_dir \notin dirs

C3_Witness ==
  \E i \in Inv :
    /\ FailedAt(i, "Validating")
    /\ promise[i].state = "rejected"
    /\ \E j \in Inv : j # i /\ opts[j].input_dir \in dirs

\* C4: context.succeed is called only in an invocation whose event is valid
\* and whose workspace creation, fetch, write, processing, projection and
\* upload all succeeded, once, with {data: {key}} where key is a text; an
\* invocation that settles in any other way rejects with an error and has
\* given context.succeed nothing.
C4_NoPartialSuccess ==
  \A i \in Inv :
    /\ Succeeded(i) =>
         /\ Violations(HandlerSchema, event[i]) = <<>>
         /\ raised[i] = <<>>
         /\ WorkspaceCreated(i)
         /\ CalledOk(i, "getObject") /\ ~Failed(i, "getObject")
         /\ CalledOk(i, "writeFile") /\ ~Failed(i, "writeFile")
         /\ CalledOk(i, "processImage") /\ ~Failed(i, "processImage")
         /\ CalledOk(i, "uploadFiles") /\ ~Failed(i, "uploadFiles")
         /\ HasPrimary(resp[i], opts[i].file_name.v)
         /\ return_value[i] # <<>>
         /\ return_value[i][1].key # <<>>
         /\ reported[i] = <<return_value[i]>>
         /\ promise[i].state = "fulfilled"
    /\ (Settled(i) /\ ~Succeeded(i)) =>
         /\ promise[i].state = "rejected"
         /\ promise[i].reason # NoError
    /\ promise[i].state = "fulfilled" => Succeeded(i)

C4_Witness ==
  \E i \in Inv :
    /\ Succeeded(i)
    /\ \E j \in Inv :
         /\ promise[j].state = "rejected"
         /\ return_value[j] # <<>>
         /\ FailedAt(j, "UploadingResults")

\* C5: a failed removal does not change the result: a settled invocation
\* whose upload succeeded has reported its result key to context.succeed and
\* its promise is fulfilled, whether or not the removals succeeded.
C5_CleanupNeverMasks ==
  \A i \in Inv :
    (Settled(i) /\ CalledOk(i, "uploadFiles")) =>
      /\ promise[i].state = "fulfilled"
      /\ reported[i] = <<return_value[i]>>

\* the two terminal outcomes of an invocation
Terminal(i) ==
  \/ pc[i] = "Done" /\ promise[i].state = "fulfilled" /\ Succeeded(i)
  \/ pc[i] = "Failed" /\ promise[i].state = "rejected" /\ ~Succeeded(i)

\* C6: every started invocation eventually settles, either Done with its
\* result given to context.succeed or Failed with its promise rejected,
\* provided every queued callback runs and every collaborator call settles.
C6_Terminates == \A i \in Inv : Started(i) ~> Terminal(i)

C6_Witness ==
  \E i \in Inv :
    /\ pc[i] = "Done"
    /\ Terminal(i)
    /\ Len(log[i]) = 8

\* the text of an error names the stage
Annotated(e, name) == \E k \in 1..Len(e.message) : e.message[k] = name

Paths(i) == {opts[i].input_dir, opts[i].output_dir}

\* C8: no directory path of a started invocation is a directory path of
\* another one, and the input and output directory of one invocation
\* differ, also for invocations called with the same event.
C8_DistinctWorkspaces ==
  \A i \in Inv : Started(i) =>
    /\ opts[i].input_dir # opts[i].output_dir
    /\ \A j \in Inv : (Started(j) /\ j # i) => Paths(i) \cap Paths(j) = {}

C8_Witness ==
  \E i \in Inv : \E j \in Inv :
    /\ i # j
    /\ Started(i) /\ Started(j)
    /\ event[i] = event[j]
    /\ "s3_key" \in DOMAIN event[i]
    /\ Paths(i) \cup Paths(j) \subseteq dirs
    /\ Cardinality(dirs) = 4

\* C9: the value a successful invocation gives to context.succeed is
\* {data: {key}} with key the join of s3_output_dir and the first name of
\* the manifest entry of the base name of s3_key, whatever the length of
\* that entry and whatever else the manifest holds; for the prefix out/2024
\* and the entry [photo_e.jpg, photo_e400.jpg] it is out/2024/photo_e.jpg.
C9_FirstDerivedName ==
  \A i \in Inv :
    Succeeded(i) =>
      /\ Basename(event[i].s3_key.v) \in DOMAIN resp[i]
      /\ reported[i] =
           << <<[key |-> PathJoin(event[i].s3_output_dir.v,
                                  Head(resp[i][Basename(event[i].s3_key.v)]))]>> >>
      /\ (/\ event[i].s3_output_dir = Str(OutPrefix)
          /\ resp[i][Basename(event[i].s3_key.v)] = <<Derived1, Derived2>>)
         => reported[i][1][1].key = <<"out", "/", "2024", "/", "photo_e.jpg">>

C9_Witness ==
  \E i \in Inv :
    /\ Succeeded(i)
    /\ event[i].s3_key = Str(PhotoKey)
    /\ resp[i][<<"photo.jpg">>] = <<Derived2, Derived1>>
    /\ Cardinality(DOMAIN resp[i]) = 2
    /\ reported[i][1][1].key = <<"out", "/", "2024", "/", "photo_e400.jpg">>

RequiredFields ==
  {"processImageFunction", "s3_key", "s3_bucket_name", "s3_output_dir"}
KnownFields == RequiredFields \cup {"versions"}
Supported   == {Str(<<"processImage3">>), Str(<<"processImage4">>)}

NonEmptyString(x) == x.t = "string" /\ x.v # <<>>

\* an event as the claim describes the accepted ones
Conforming(ev) ==
  /\ DOMAIN ev \subseteq KnownFields
  /\ RequiredFields \subseteq DOMAIN ev
  /\ ev.processImageFunction \in Supported
  /\ NonEmptyString(ev.s3_key)
  /\ NonEmptyString(ev.s3_bucket_name)
  /\ NonEmptyString(ev.s3_output_dir)
  /\ "versions" \in DOMAIN ev => ev.versions.t = "array"

\* an event as the claim describes the rejected ones
Defective(ev) ==
  \/ RequiredFields \ DOMAIN ev # {}
  \/ DOMAIN ev \ KnownFields # {}
  \/ "processImageFunction" \in DOMAIN ev /\ ev.processImageFunction \notin Supported

\* C10: once the validation callback of an invocation has run, a conforming
\* event has passed it, and an event that misses a required field, holds an
\* unknown field or names an unsupported function has been rejected with an
\* error that carries a non-empty list of violations.
C10_ValidatorAcceptsAndRejects ==
  \A i \in Inv :
    (Started(i) /\ pc[i] # "Validating") =>
      /\ Conforming(event[i]) => ~FailedAt(i, "Validating")
      /\ Defective(event[i]) =>
           /\ FailedAt(i, "Validating")
           /\ promise[i].state = "rejected"
           /\ promise[i].reason.ajv # <<>>

C10_Witness ==
  \E i \in Inv :
    /\ Conforming(event[i])
    /\ "versions" \in DOMAIN event[i]
    /\ pc[i] = "PreparingInput"
    /\ raised[i] = <<>>

\* C11: the error of an invocation whose event fails validation carries
\* every constraint the event violates (a missing required field and an
\* unknown field together give both), not only the first one found.
C11_FullViolationSet ==
  \A i \in Inv :
    (FailedAt(i, "Validating") /\ promise[i].state = "rejected") =>
      promise[i].reason.ajv = Violations(HandlerSchema, event[i])

\* the elements of a sequence
Range(s) == {s[n] : n \in 1..Len(s)}

\* options as the claim describes the rejected ones: upload_folder empty or
\* not a string, or an unknown field
Rejectable(o) ==
  \/ DOMAIN o \ {"upload_folder"} # {}
  \/ "upload_folder" \in DOMAIN o /\ ~NonEmptyString(o.upload_folder)

Acceptable(o) ==
  /\ DOMAIN o \subseteq {"upload_folder"}
  /\ "upload_folder" \in DOMAIN o => NonEmptyString(o.upload_folder)

\* C13: the stored root is the default until a config call completes; a
\* call whose options pass validation completes fulfilled, and the step
\* that completes it sets the root to upload_folder when the options have
\* that field and keeps the root when they have not, changing nothing else;
\* the root changes in no other step.
C13_AcceptedConfigSetsRoot ==
  /\ []((\A k \in Cfg : cpc[k] # "Done") => upload_folder = DefaultRoot)
  /\ [](\A k \in Cfg :
         (Acceptable(copts[k]) /\ cpc[k] \notin {"Idle", "Validating"}) =>
           /\ cpc[k] \in {"Assigning", "Done"}
           /\ cpc[k] = "Done" => cpromise[k] = Fulfilled)
  /\ [][\A k \in Cfg :
          (cpc[k] # "Done" /\ cpc'[k] = "Done") =>
            /\ upload_folder' = IF "upload_folder" \in DOMAIN copts[k]
                                THEN copts[k].upload_folder.v
                                ELSE upload_folder
            /\ UNCHANGED <<ajv_errors, hvars, ncfg, copts>>
            /\ \A j \in Cfg \ {k} :
                 cpc'[j] = cpc[j] /\ cpromise'[j] = cpromise[j]]_vars
  /\ [][upload_folder' # upload_folder =>
          \E k \in Cfg : cpc[k] = "Assigning" /\ cpc'[k] = "Done"]_vars

C13_Witness ==
  \E k \in Cfg : \E j \in Cfg :
    /\ cpc[j] = "Done"
    /\ copts[j] = Object([upload_folder |-> Str(<<"/", "srv", "/", "img", "/">>)])
    /\ cpc[k] = "Done"
    /\ DOMAIN copts[k] = {}
    /\ upload_folder = <<"/", "srv", "/", "img", "/">>

\* C14: once the projection callback has run on a manifest without an entry
\* for the base name of s3_key, the invocation is rejected with an error,
\* has set no result, has not called uploadFiles and has given nothing to
\* context.succeed; whatever context.succeed is given holds a key that is
\* a non-empty text.
C14_MissingEntryFails ==
  \A i \in Inv :
    /\ (/\ CalledOk(i, "processImage")
        /\ Basename(event[i].s3_key.v) \notin DOMAIN resp[i]
        /\ pc[i] # "ProjectingResult") =>
          /\ pc[i] = "Failed"
          /\ promise[i].state = "rejected"
          /\ promise[i].reason.type = "TypeError"
          /\ return_value[i] = <<>>
          /\ ~Called(i, "uploadFiles")
          /\ ~Succeeded(i)
    /\ \A n \in 1..Len(reported[i]) :
         reported[i][n] # <<>> /\ reported[i][n][1].key # <<>>

C14_Witness ==
  \E i \in Inv :
    /\ Get(event[i], "s3_key") = Str(PhotoKey)
    /\ DOMAIN resp[i] = {OtherName}
    /\ Len(log[i]) = 5
    /\ log[i][5] = Call("processImage",
                        <<event[i].processImageFunction, Str(opts[i].input_dir),
                          Str(opts[i].output_dir), Get(event[i], "versions")>>,
                        TRUE)
    /\ FailedAt(i, "ProjectingResult")
    /\ promise[i] = Rejected(ProjectError)

\* the stages in the order the claim gives them, with the number of
\* collaborator calls the invocation has made when the stage is entered
StageOrder ==
  << [stage |-> "Validating",       calls |-> 0],
     [stage |-> "PreparingInput",   calls |-> 0],
     [stage |-> "PreparingOutput",  calls |-> 1],
     [stage |-> "NamingFile",       calls |-> 2],
     [stage |-> "FetchingSource",   calls |-> 2],
     [stage |-> "WritingSource",    calls |-> 3],
     [stage |-> "Processing",       calls |-> 4],
     [stage |-> "ProjectingResult", calls |-> 5],
     [stage |-> "UploadingResults", calls |-> 5],
     [stage |-> "CleaningInput",    calls |-> 6],
     [stage |-> "CleaningOutput",   calls |-> 7],
     [stage |-> "Returning",        calls |-> 8],
     [stage |-> "Done",             calls |-> 8] >>

\* the k-th collaborator call of a whole run of invocation i, in the order
\* the claim gives them: the operation and its first argument
ExpectedCall(i, k) ==
  CASE k = 1 -> [op |-> "mkdirp",       arg |-> Str(opts[i].input_dir)]
    [] k = 2 -> [op |-> "mkdirp",       arg |-> Str(opts[i].output_dir)]
    [] k = 3 -> [op |-> "getObject",    arg |-> event[i].s3_bucket_name]
    [] k = 4 -> [op |-> "writeFile",
                 arg |-> Str(opts[i].input_dir
                             \o Basename(event[i].s3_key.v))]
    [] k = 5 -> [op |-> "processImage", arg |-> event[i].processImageFunction]
    [] k = 6 -> [op |-> "uploadFiles",  arg |-> Str(opts[i].output_dir)]
    [] k = 7 -> [op |-> "rimraf",       arg |-> Str(opts[i].input_dir)]
    [] k = 8 -> [op |-> "rimraf",       arg |-> Str(opts[i].output_dir)]

\* C15: the calls an invocation has made are an initial part of the
\* sequence mkdirp(input_dir), mkdirp(output_dir), getObject, writeFile of
\* input_dir/basename(s3_key), processing, uploadFiles, rimraf(input_dir),
\* rimraf(output_dir), each made once and each but the last successful; an
\* invocation that waits at a stage has completed exactly the stages before
\* it, without error; and a step of an invocation moves it from a stage to
\* the next stage of the order or to Failed, never back, never twice into
\* a stage, never out of Done or Failed.
C15_StrictStageOrder ==
  /\ [](\A i \in Inv :
         /\ Len(log[i]) <= 8
         /\ \A k \in 1..Len(log[i]) :
              /\ [op |-> log[i][k].op, arg |-> log[i][k].args[1]]
                   = ExpectedCall(i, k)
              /\ k < Len(log[i]) => log[i][k].ok
         /\ \A n \in 1..Len(StageOrder) :
              pc[i] = StageOrder[n].stage =>
                /\ Len(log[i]) = StageOrder[n].calls
                /\ \A k \in 1..Len(log[i]) : log[i][k].ok
                /\ raised[i] = <<>>
         /\ pc[i] = "Failed" => Len(raised[i]) = 1
         /\ pc[i] \in {"Idle", "Failed"}
              \cup {StageOrder[n].stage : n \in 1..Len(StageOrder)})
  /\ [][\A i \in Inv :
          pc'[i] # pc[i] =>
            \/ pc[i] = "Idle" /\ pc'[i] = StageOrder[1].stage
            \/ \E n \in 1..(Len(StageOrder) - 1) :
                 /\ pc[i] = StageOrder[n].stage
                 /\ pc'[i] \in {StageOrder[n + 1].stage, "Failed"}
                 /\ \A j \in Inv \ {i} : pc'[j] = pc[j]]_vars

C15_Witness ==
  \E i \in Inv : \E j \in Inv :
    /\ pc[i] = "Done"
    /\ Len(log[i]) = 8
    /\ \A k \in 1..8 : log[i][k].ok
    /\ pc[j] = "Failed"
    /\ Len(log[j]) = 4
    /\ log[j][4].op = "writeFile"
    /\ ~log[j][4].ok

\* C16: neither directory of an invocation exists before the invocation
\* creates its workspace; when it is about to report success, and after,
\* both directories were created by it and removed by it, one successful
\* rimraf each, and neither exists; every rimraf of an invocation is given
\* one of its own two directories, and a step of an invocation removes no
\* other directory from the disk.
C16_RemovedAtSuccess ==
  /\ [](\A i \in Inv :
         /\ pc[i] \in {"Idle", "Validating", "PreparingInput"} =>
              Paths(i) \cap dirs = {}
         /\ (pc[i] \in {"Returning", "Done"} \/ Succeeded(i)) =>
              /\ WorkspaceCreated(i)
              /\ Paths(i) \cap dirs = {}
              /\ \A p \in Paths(i) :
                   /\ Cardinality(CallsOn(i, "rimraf", Str(p))) = 1
                   /\ \A k \in CallsOn(i, "rimraf", Str(p)) : log[i][k].ok
         /\ \A k \in CallsOf(i, "rimraf") :
              log[i][k].args \in {<<Str(p)>> : p \in Paths(i)})
  /\ [][\A i \in Inv :
          pc'[i] # pc[i] => (dirs \ dirs') \subseteq Paths(i)]_vars

C16_Witness ==
  \E i \in Inv : \E j \in Inv :
    /\ Succeeded(i)
    /\ Paths(i) \cap dirs = {}
    /\ Cardinality(CallsOf(i, "rimraf")) = 2
    /\ pc[j] = "CleaningInput"
    /\ dirs = Paths(j)

\* the identifiers cuid can have given out
Cuids == {CuidText(c) : c \in 1..(2 * MaxInv)}

\* p is the directory <root>/<prefix><identifier>/ for some identifier
RootedAt(p, root, prefix) ==
  \E id \in Cuids : p = PathJoin(root, <<"/", prefix>> \o id \o <<"/">>)

\* C17 as stated: in the step that creates a directory of an invocation,
\* the directory is rooted at the root the configuration holds in that
\* step, whatever config calls have run since the invocation was called.
C17_RootAtAcquisition ==
  [][\A i \in Inv :
      /\ (pc[i] = "PreparingInput" /\ pc'[i] # pc[i]) =>
           RootedAt(opts[i].input_dir, upload_folder, "input-")
      /\ (pc[i] = "PreparingOutput" /\ pc'[i] # pc[i]) =>
           RootedAt(opts[i].output_dir, upload_folder, "output-")]_vars

\* C17 as amended: the two directory paths of an invocation are rooted at
\* the root the configuration holds in the step in which handler is called
\* (an invocation called after a config call has stored a new root uses the
\* new root), and they do not change afterwards, whatever config calls
\* complete before the directories are created.
C17_RootAtCall ==
  /\ [][\A i \in Inv :
          (pc[i] = "Idle" /\ pc'[i] # "Idle") =>
            /\ RootedAt(opts'[i].input_dir, upload_folder, "input-")
            /\ RootedAt(opts'[i].output_dir, upload_folder, "output-")]_vars
  /\ [][\A i \in Inv :
          pc[i] # "Idle" =>
            /\ opts'[i].input_dir = opts[i].input_dir
            /\ opts'[i].output_dir = opts[i].output_dir]_vars

C17_Witness ==
  \E i \in Inv : \E j \in Inv :
    /\ upload_folder = <<"/", "data">>
    /\ RootedAt(opts[i].input_dir, DefaultRoot, "input-")
    /\ CalledOk(i, "mkdirp")
    /\ Len(log[i]) = 1
    /\ RootedAt(opts[j].input_dir, <<"/", "data">>, "input-")
    /\ RootedAt(opts[j].output_dir, <<"/", "data">>, "output-")
    /\ Paths(j) \subseteq dirs

\* the roots that completed config calls have asked for
StoredRoots ==
  {copts[k].upload_folder.v :
     k \in {c \in Cfg : cpc[c] = "Done" /\ "upload_folder" \in DOMAIN copts[c]}}

\* C18: no step of handler (its call or any callback of its chain, ending
\* in success or in failure) changes the stored root: the root is the
\* default until a config call completes, is always the default or a root
\* that a completed config call asked for, and changes only in the step
\* that completes a config call.
C18_HandlerKeepsConfig ==
  /\ []((\A k \in Cfg : cpc[k] # "Done") => upload_folder = DefaultRoot)
  /\ [](upload_folder \in {DefaultRoot} \cup StoredRoots)
  /\ [][hvars' # hvars => upload_folder' = upload_folder]_vars
  /\ [][upload_folder' # upload_folder =>
          /\ hvars' = hvars
          /\ \E k \in Cfg :
               /\ cpc[k] = "Assigning" /\ cpc'[k] = "Done"
               /\ upload_folder' = copts[k].upload_folder.v]_vars

C18_Witness ==
  \E i \in Inv : \E j \in Inv :
    /\ \A k \in Cfg : cpc[k] = "Done"
    /\ upload_folder = <<"/", "srv", "/", "img", "/">>
    /\ Succeeded(i)
    /\ RootedAt(opts[i].input_dir, <<"/", "data">>, "input-")
    /\ pc[j] = "Failed"
    /\ RootedAt(opts[j].input_dir, DefaultRoot, "input-")

\* the violation list the validator gives for one input: the first
\* violation of the schema by that input
OwnErrors(schema, data) == <<Head(Violations(schema, data))>>

\* C19: whatever validations of other invocations and config calls ran
\* before, between and after on the shared validator, an invocation fails
\* validation exactly when its own event violates the handler schema, and
\* its error then carries the violation list and the text for its own
\* event; a config call is rejected exactly when its own options violate
\* the config schema, with the list and the text for its own options.
C19_ErrorsOfOwnCall ==
  /\ \A i \in Inv :
       pc[i] \notin {"Idle", "Validating"} =>
         IF Violations(HandlerSchema, event[i]) = <<>>
         THEN ~FailedAt(i, "Validating")
         ELSE /\ FailedAt(i, "Validating")
              /\ promise[i].state = "rejected"
              /\ promise[i].reason.ajv = OwnErrors(HandlerSchema, event[i])
              /\ promise[i].reason.message
                   = ErrorsText(OwnErrors(HandlerSchema, event[i]))
  /\ \A k \in Cfg :
       cpc[k] \notin {"Idle", "Validating"} =>
         IF Violations(ConfigSchema, copts[k]) = <<>>
         THEN cpc[k] \in {"Assigning", "Done"}
         ELSE /\ cpc[k] = "Failed"
              /\ cpromise[k].state = "rejected"
              /\ cpromise[k].reason.ajv = OwnErrors(ConfigSchema, copts[k])
              /\ cpromise[k].reason.message
                   = ErrorsText(OwnErrors(ConfigSchema, copts[k]))

C19_Witness ==
  \E i \in Inv : \E j \in Inv : \E k \in Cfg :
    /\ FailedAt(i, "Validating")
    /\ promise[i].reason.ajv = <<AjvError("required", "", "s3_key")>>
    /\ cpc[k] = "Failed"
    /\ cpromise[k].reason.ajv = <<AjvError("additionalProperties", "", "other")>>
    /\ pc[j] = "PreparingInput"
    /\ ajv_errors = <<>>

\* the arguments a call of invocation i must have been given, by operation
OwnArgs(i, op) ==
  CASE op = "mkdirp" -> {<<Str(p)>> : p \in Paths(i)}
    [] op = "rimraf" -> {<<Str(p)>> : p \in Paths(i)}
    [] op = "getObject" -> {<<event[i].s3_bucket_name, event[i].s3_key>>}
    [] op = "writeFile" ->
         {<<Str(opts[i].input_dir \o Basename(event[i].s3_key.v))>>}
    [] op = "processImage" ->
         {<<event[i].processImageFunction, Str(opts[i].input_dir),
            Str(opts[i].output_dir), Get(event[i], "versions")>>}
    [] op = "uploadFiles" ->
         {<<Str(opts[i].output_dir), event[i].s3_bucket_name,
            event[i].s3_output_dir, Str(<<"public-read">>),
            Num(<<"15552000">>)>>}

\* C20: every collaborator call of an invocation was given that
\* invocation's own values: mkdirp and rimraf one of its two directories,
\* getObject its bucket and key, writeFile the base name of its key under
\* its input directory, the processing function its two directories and
\* its versions value as it came (undefined when absent), uploadFiles its
\* output directory, bucket and prefix with acl public-read and
\* CacheControl 15552000; and a step of an invocation creates or removes
\* only its own directories and touches no other invocation's request,
\* workspace, result or calls.
C20_OwnWorkspaceAndRequest ==
  /\ [](\A i \in Inv : \A k \in 1..Len(log[i]) :
         log[i][k].args \in OwnArgs(i, log[i][k].op))
  /\ [][\A i \in Inv :
          pc'[i] # pc[i] =>
            /\ ((dirs' \ dirs) \cup (dirs \ dirs')) \subseteq Paths(i)
            /\ \A j \in Inv \ {i} :
                 /\ event'[j] = event[j] /\ opts'[j] = opts[j]
                 /\ log'[j] = log[j] /\ resp'[j] = resp[j]
                 /\ return_value'[j] = return_value[j]
                 /\ reported'[j] = reported[j]]_vars

C20_Witness ==
  \E i \in Inv : \E j \in Inv :
    /\ event[i] = OkEvent /\ event[j] = OkEvent2
    /\ pc[i] = "Done" /\ pc[j] = "Done"
    /\ log[i][4].args = <<Str(opts[i].input_dir \o <<"photo.jpg">>)>>
    /\ log[j][4].args = <<Str(opts[j].input_dir \o <<"logo.png">>)>>
    /\ log[i][5].args[4] = Arr(<<"w400">>)
    /\ log[j][5].args[4] = Undefined
    /\ log[j][6].args[2] = Str(<<"assets">>)

====
